---- MODULE Spec2Model ----
(***************************************************************************)
(* Model of src/librustc_trans/metadata.rs: LlvmMetadataLoader, which      *)
(* finds the metadata blob of an rlib (archive member "rust.metadata.bin") *)
(* or of a dylib (object-file section ".rustc"), and the two section-name  *)
(* functions.                                                              *)
(*                                                                         *)
(* A caller invokes one operation at a time (the code is synchronous).     *)
(* The archive member scan and the section scan are modelled one iterator  *)
(* step per action; everything the LLVM readers report (open failures and  *)
(* their cause, member entries, section names and contents) is an input    *)
(* drawn from the bounded sets below.                                      *)
(***************************************************************************)
EXTENDS Integers, Sequences, FiniteSets, TLC

VARIABLES
    pc,         \* position of the caller: "idle", a step of a lookup, "returned", "panicked"
    call,       \* the operation in flight, or "none"
    target,     \* the &Target argument of the operation in flight
    filename,   \* the &Path argument of the operation in flight
    file,       \* what the readers find at filename (the input of the lookup)
    si,         \* cursor of the member iterator / section iterator (1-based)
    owner,      \* resource id of the Box<ArchiveRO> / Box<ObjectFile> of this lookup, 0 if none
    alive,      \* alive[r]: the backing resource r is open (not yet dropped)
    handles,    \* the ErasedBoxRef<[u8]> values that exist: [owner, bytes]
    result,     \* the value the operation returned
    want,       \* the section name the scan last compared against ("" before)
    inspected,  \* history: the cursor positions whose entry was inspected, in order
    advances    \* history: number of cursor advances in this lookup

vars == <<pc, call, target, filename, file, si, owner, alive, handles, result,
          want, inspected, advances>>

(***************************************************************************)
(* Bounds of the model.                                                    *)
(***************************************************************************)
\* longest member list of an archive / section list of an object file
MaxLen == 2
\* most backing resources open at the same time
MaxLive == 2

(***************************************************************************)
(* Strings and bytes.                                                      *)
(***************************************************************************)
\* s contains t as a substring (str::contains).
Contains(s, t) ==
    \E i \in 1..(Len(s) - Len(t) + 1) : SubSeq(s, i, i + Len(t) - 1) = t

\* The byte of one ASCII character of the strings the code compares with.
AsciiByte(c) ==
    CASE c = "." -> 46  [] c = "," -> 44  [] c = "_" -> 95
      [] c = "A" -> 65  [] c = "D" -> 68  [] c = "T" -> 84
      [] c = "c" -> 99  [] c = "r" -> 114 [] c = "s" -> 115
      [] c = "t" -> 116 [] c = "u" -> 117

\* str::as_bytes: the UTF-8 bytes of an (ASCII) string.
AsBytes(s) == [i \in 1..Len(s) |-> AsciiByte(SubSeq(s, i, i))]

IsCont(b) == b >= 128 /\ b <= 191

\* Number of bytes of the well-formed UTF-8 sequence starting at bs[i], 0 if
\* none (the validation String::from_utf8 runs).
Utf8SeqLen(bs, i) ==
    LET b == bs[i]
        n == Len(bs) - i + 1
    IN  IF b <= 127 THEN 1
        ELSE IF b >= 194 /\ b <= 223
             THEN IF n >= 2 /\ IsCont(bs[i + 1]) THEN 2 ELSE 0
        ELSE IF b >= 224 /\ b <= 239
             THEN IF /\ n >= 3
                     /\ IsCont(bs[i + 1]) /\ IsCont(bs[i + 2])
                     /\ (b = 224 => bs[i + 1] >= 160)
                     /\ (b = 237 => bs[i + 1] <= 159)
                  THEN 3 ELSE 0
        ELSE IF b >= 240 /\ b <= 244
             THEN IF /\ n >= 4
                     /\ IsCont(bs[i + 1]) /\ IsCont(bs[i + 2]) /\ IsCont(bs[i + 3])
                     /\ (b = 240 => bs[i + 1] >= 144)
                     /\ (b = 244 => bs[i + 1] <= 143)
                  THEN 4 ELSE 0
        ELSE 0

\* bs is well-formed UTF-8 from position i on.
RECURSIVE Utf8ValidFrom(_, _)
Utf8ValidFrom(bs, i) ==
    IF i > Len(bs) THEN TRUE
    ELSE \E k \in {Utf8SeqLen(bs, i)} :
            k > 0 /\ \E j \in {i + k} : Utf8ValidFrom(bs, j)

Utf8Valid(bs) == Utf8ValidFrom(bs, 1)

\* String::from_utf8(v): Ok(the string holding exactly the bytes v) or Err.
from_utf8(bs) ==
    IF Utf8Valid(bs) THEN [ok |-> TRUE, bytes |-> bs]
                     ELSE [ok |-> FALSE, bytes |-> <<>>]

(***************************************************************************)
(* Constants and pure functions of the source.                             *)
(***************************************************************************)
METADATA_FILENAME == "rust.metadata.bin"

Targets == { [options |-> [is_like_osx |-> b]] : b \in BOOLEAN }

\* Faulty variant: the two branches are exchanged.
metadata_section_name_swapped(t) ==
    IF t.options.is_like_osx THEN ".rustc" ELSE "__DATA,.rustc"

metadata_section_name(t) ==
    IF t.options.is_like_osx THEN "__DATA,.rustc" ELSE ".rustc"

\* Faulty variant: the scan looks for the name a producer writes.
read_metadata_section_name_as_writer(t) == metadata_section_name(t)

read_metadata_section_name(t) == ".rustc"

(***************************************************************************)
(* Values.                                                                 *)
(***************************************************************************)
\* Option<&str>
None == [some |-> FALSE, v |-> ""]
Some(s) == [some |-> TRUE, v |-> s]

NoHandle == [owner |-> 0, bytes |-> <<>>]
NoResult == [tag |-> "none", handle |-> NoHandle, msg |-> ""]
\* Result<ErasedBoxRef<[u8]>, String>
Ok(h) == [tag |-> "ok", handle |-> h, msg |-> ""]
Err(m) == [tag |-> "err", handle |-> NoHandle, msg |-> m]
\* the &'static str a section-name function returns
Name(s) == [tag |-> "name", handle |-> NoHandle, msg |-> s]
\* the unwinding of a panic: nothing is returned
Panic == [tag |-> "panic", handle |-> NoHandle, msg |-> ""]

(***************************************************************************)
(* Inputs: what the readers report for the file at a path.                 *)
(***************************************************************************)
Paths == {"libfoo.rlib", "/usr/lib/libbar.so"}

\* the reason a reader gives when it cannot read or cannot parse a file
Causes == {"No such file or directory", "Invalid file format"}

\* One item of ArchiveRO::iter(): Err (the child does not parse) or a child
\* with its name() and data().
ErrChild == [ok |-> FALSE, name |-> None, data |-> <<>>]
Child(n, d) == [ok |-> TRUE, name |-> n, data |-> d]
Children ==
    { ErrChild,
      Child(None, <<7>>),
      Child(Some("foo.o"), <<144>>),
      Child(Some(METADATA_FILENAME), <<1, 2, 3>>),
      Child(Some(METADATA_FILENAME), <<170, 187>>) }

\* One section of an object file: the bytes LLVMRustGetSectionName reports
\* and the contents (LLVMGetSectionContents, LLVMGetSectionSize bytes long).
Section(n, c) == [name |-> n, contents |-> c]
Sections ==
    { Section(<<46, 114, 117, 115, 116, 99>>, <<1, 2, 3>>),       \* ".rustc"
      Section(<<46, 114, 117, 115, 116, 99>>, <<170, 187>>),      \* ".rustc"
      Section(<<46, 116, 101, 120, 116>>, <<144>>),               \* ".text"
      Section(<<95, 95, 68, 65, 84, 65, 44, 46, 114, 117, 115, 116, 99>>,
              <<9>>),                                             \* "__DATA,.rustc"
      Section(<<46, 114, 195, 169>>, <<8>>),                      \* ".r" e-acute
      Section(<<46, 114, 117, 115, 116, 99, 195>>, <<6>>) }       \* ".rustc" + cut-off sequence

SeqsUpTo(S, n) == UNION { [1..k -> S] : k \in 0..n }

NoFile == [status |-> "none", cause |-> "", items |-> <<>>]
\* the file cannot be read at all
Unreadable(c) == [status |-> "unreadable", cause |-> c, items |-> <<>>]
\* the file is read but is not the expected container
Malformed(c) == [status |-> "malformed", cause |-> c, items |-> <<>>]
Container(items) == [status |-> "ok", cause |-> "", items |-> items]

BadFiles == { Unreadable(c) : c \in Causes } \cup { Malformed(c) : c \in Causes }
RlibFiles == BadFiles \cup { Container(cs) : cs \in SeqsUpTo(Children, MaxLen) }
DylibFiles == BadFiles \cup { Container(ss) : ss \in SeqsUpTo(Sections, MaxLen) }

NoTarget == [options |-> [is_like_osx |-> FALSE]]

(***************************************************************************)
(* State after construction: no lookup in flight, nothing open.            *)
(***************************************************************************)
Init ==
    /\ pc = "idle"
    /\ call = "none"
    /\ target = NoTarget
    /\ filename = ""
    /\ file = NoFile
    /\ si = 0
    /\ owner = 0
    /\ alive = [r \in 1..MaxLive |-> FALSE]
    /\ handles = {}
    /\ result = NoResult
    /\ want = ""
    /\ inspected = <<>>
    /\ advances = 0

\* The resource id the next opened archive / object file gets.
FreeSlot == CHOOSE r \in 1..MaxLive : ~alive[r] /\ \A q \in 1..(r - 1) : alive[q]
HasFreeSlot == \E r \in 1..MaxLive : ~alive[r]

(***************************************************************************)
(* OwningRef (rustc_data_structures::owning_ref), as the lookups use it.   *)
(***************************************************************************)
\* OwningRef::new(box x): the boxed resource r is owned and open.
OwningRefNew(r) == alive' = [alive EXCEPT ![r] = TRUE]

\* try_map whose closure returns Err: the OwningRef, and with it the owner,
\* is dropped; no handle appears.
TryMapErr ==
    /\ alive' = [alive EXCEPT ![owner] = FALSE]
    /\ handles' = handles

\* try_map whose closure returns Ok(bytes), then erase_owner(): the handle
\* holds the owner and the byte slice.
TryMapOk(bytes) ==
    /\ handles' = handles \cup { [owner |-> owner, bytes |-> bytes] }
    /\ alive' = alive

(***************************************************************************)
(* get_rlib_metadata                                                       *)
(***************************************************************************)
\* Faulty variant: the open failure is reported without the reader's cause.
get_rlib_metadata_open_no_cause(t, f, fl) ==
    /\ pc = "idle"
    /\ HasFreeSlot
    /\ call' = "get_rlib_metadata"
    /\ target' = t
    /\ filename' = f
    /\ file' = fl
    /\ IF fl.status = "ok"
       THEN /\ owner' = FreeSlot
            /\ OwningRefNew(FreeSlot)
            /\ si' = 1
            /\ pc' = "rlib_next"
            /\ result' = NoResult
       ELSE /\ result' = Err("failed to read rlib metadata in '" \o f \o "'")
            /\ pc' = "returned"
            /\ UNCHANGED <<owner, alive, si>>
    /\ UNCHANGED <<handles, want, inspected, advances>>

\* ArchiveRO::open(filename) with map / map_err: the archive boxed in an
\* OwningRef, or the error message returned by `?`.
get_rlib_metadata_open(t, f, fl) ==
    /\ pc = "idle"
    /\ HasFreeSlot
    /\ call' = "get_rlib_metadata"
    /\ target' = t
    /\ filename' = f
    /\ file' = fl
    /\ IF fl.status = "ok"
       THEN /\ owner' = FreeSlot
            /\ OwningRefNew(FreeSlot)
            /\ si' = 1
            /\ pc' = "rlib_next"
            /\ result' = NoResult
       ELSE /\ result' = Err("failed to read rlib metadata in '" \o f \o "': "
                             \o fl.cause)
            /\ pc' = "returned"
            /\ UNCHANGED <<owner, alive, si>>
    /\ UNCHANGED <<handles, want, inspected, advances>>

\* filter_map(|s| s.ok()): the item is kept iff it parsed.
filter_map_ok(s) == s.ok

\* Faulty variant: any named member is taken for the metadata member.
find_pred_any_named(sect) == sect.name # None

\* find(|sect| sect.name() == Some(METADATA_FILENAME))
find_pred(sect) == sect.name = Some(METADATA_FILENAME)

\* Faulty variant: a member that does not parse ends the scan with an error of its
\* own instead of being filtered out.
get_rlib_metadata_skip_or_fail ==
    /\ pc = "rlib_next"
    /\ si <= Len(file.items)
    /\ LET s == file.items[si]
       IN  IF ~s.ok
           THEN /\ TryMapErr
                /\ result' = Err("failed to read archive member in '" \o filename \o "'")
                /\ pc' = "returned"
                /\ UNCHANGED <<si, advances>>
           ELSE /\ ~find_pred(s)
                /\ si' = si + 1
                /\ advances' = advances + 1
                /\ UNCHANGED <<pc, alive, handles, result>>
    /\ inspected' = Append(inspected, si)
    /\ UNCHANGED <<call, target, filename, file, owner, want>>

\* The iterator yields an item that filter_map drops or find rejects: the
\* scan goes on with the next item.
get_rlib_metadata_skip ==
    /\ pc = "rlib_next"
    /\ si <= Len(file.items)
    /\ LET s == file.items[si]
       IN  ~filter_map_ok(s) \/ ~find_pred(s)
    /\ inspected' = Append(inspected, si)
    /\ si' = si + 1
    /\ advances' = advances + 1
    /\ UNCHANGED <<pc, call, target, filename, file, owner, alive, handles,
                   result, want>>

\* Faulty variant: the slice is returned but the archive is not kept with it.
get_rlib_metadata_found_dangling ==
    /\ pc = "rlib_next"
    /\ si <= Len(file.items)
    /\ LET s == file.items[si]
       IN  /\ filter_map_ok(s)
           /\ find_pred(s)
           /\ handles' = handles \cup { [owner |-> owner, bytes |-> s.data] }
           /\ alive' = [alive EXCEPT ![owner] = FALSE]
           /\ result' = Ok([owner |-> owner, bytes |-> s.data])
    /\ inspected' = Append(inspected, si)
    /\ pc' = "returned"
    /\ UNCHANGED <<call, target, filename, file, si, owner, want, advances>>

\* find returns the item; map(|s| s.data()); try_map succeeds and the handle
\* is returned.
get_rlib_metadata_found ==
    /\ pc = "rlib_next"
    /\ si <= Len(file.items)
    /\ LET s == file.items[si]
       IN  /\ filter_map_ok(s)
           /\ find_pred(s)
           /\ TryMapOk(s.data)
           /\ result' = Ok([owner |-> owner, bytes |-> s.data])
    /\ inspected' = Append(inspected, si)
    /\ pc' = "returned"
    /\ UNCHANGED <<call, target, filename, file, si, owner, want, advances>>

\* The iterator is exhausted: ok_or_else builds the message, try_map fails.
get_rlib_metadata_not_found ==
    /\ pc = "rlib_next"
    /\ si > Len(file.items)
    /\ TryMapErr
    /\ result' = Err("failed to read rlib metadata: '" \o filename \o "'")
    /\ pc' = "returned"
    /\ UNCHANGED <<call, target, filename, file, si, owner, want, inspected,
                   advances>>

(***************************************************************************)
(* get_dylib_metadata and search_meta_section                              *)
(***************************************************************************)
\* Faulty variant: the null check of the memory buffer is missing.
get_dylib_metadata_read_unchecked(t, f, fl) ==
    /\ pc = "idle"
    /\ HasFreeSlot
    /\ call' = "get_dylib_metadata"
    /\ target' = t
    /\ filename' = f
    /\ file' = fl
    /\ result' = NoResult
    /\ pc' = "dylib_object"
    /\ UNCHANGED <<si, owner, alive, handles, want, inspected, advances>>

\* LLVMRustCreateMemoryBufferWithContentsOfFile and the null check.
get_dylib_metadata_read(t, f, fl) ==
    /\ pc = "idle"
    /\ HasFreeSlot
    /\ call' = "get_dylib_metadata"
    /\ target' = t
    /\ filename' = f
    /\ file' = fl
    /\ IF fl.status = "unreadable"
       THEN /\ result' = Err("error reading library: '" \o f \o "'")
            /\ pc' = "returned"
       ELSE /\ result' = NoResult
            /\ pc' = "dylib_object"
    /\ UNCHANGED <<si, owner, alive, handles, want, inspected, advances>>

\* ObjectFile::new(mb) with map / ok_or_else, then the start of
\* search_meta_section: mk_section_iter.
get_dylib_metadata_object ==
    /\ pc = "dylib_object"
    /\ IF file.status = "ok"
       THEN /\ owner' = FreeSlot
            /\ OwningRefNew(FreeSlot)
            /\ si' = 1
            /\ pc' = "scan_at_end"
            /\ result' = NoResult
       ELSE /\ result' = Err("provided path not an object file: '" \o filename
                             \o "'")
            /\ pc' = "returned"
            /\ UNCHANGED <<owner, alive, si>>
    /\ UNCHANGED <<call, target, filename, file, handles, want, inspected,
                   advances>>

\* Faulty variant: the not-found message leaves out the path.
search_meta_section_at_end_no_path ==
    /\ pc = "scan_at_end"
    /\ IF si > Len(file.items)
       THEN /\ TryMapErr
            /\ result' = Err("metadata not found")
            /\ pc' = "returned"
       ELSE /\ pc' = "scan_inspect"
            /\ UNCHANGED <<alive, handles, result>>
    /\ UNCHANGED <<call, target, filename, file, si, owner, want, inspected,
                   advances>>

\* while LLVMIsSectionIteratorAtEnd(..) == False: the loop goes on, or the
\* loop ends and the not-found message is returned (try_map fails).
search_meta_section_at_end ==
    /\ pc = "scan_at_end"
    /\ IF si > Len(file.items)
       THEN /\ TryMapErr
            /\ result' = Err("metadata not found: '" \o filename \o "'")
            /\ pc' = "returned"
       ELSE /\ pc' = "scan_inspect"
            /\ UNCHANGED <<alive, handles, result>>
    /\ UNCHANGED <<call, target, filename, file, si, owner, want, inspected,
                   advances>>

\* Faulty variant: a name that does not decode is skipped like a name that differs.
search_meta_section_skip_undecodable ==
    /\ pc = "scan_inspect"
    /\ ~from_utf8(file.items[si].name).ok
    /\ inspected' = Append(inspected, si)
    /\ pc' = "scan_advance"
    /\ UNCHANGED <<call, target, filename, file, si, owner, alive, handles,
                   result, want, advances>>

\* String::from_utf8(name).unwrap() fails: the panic unwinds through
\* try_map, which drops the object file; nothing is returned.
search_meta_section_panic ==
    /\ pc = "scan_inspect"
    /\ ~from_utf8(file.items[si].name).ok
    /\ inspected' = Append(inspected, si)
    /\ TryMapErr
    /\ result' = Panic
    /\ pc' = "panicked"
    /\ UNCHANGED <<call, target, filename, file, si, owner, want, advances>>

\* read_metadata_section_name(target) == name
name_matches(t, name) == AsBytes(read_metadata_section_name(t)) = name.bytes

\* The name decodes and equals the search name: the slice of
\* LLVMGetSectionSize bytes at LLVMGetSectionContents is returned.
search_meta_section_found ==
    /\ pc = "scan_inspect"
    /\ LET s == file.items[si]
           name == from_utf8(s.name)
           csz == Len(s.contents)
           buf == SubSeq(s.contents, 1, csz)
       IN  /\ name.ok
           /\ name_matches(target, name)
           /\ TryMapOk(buf)
           /\ result' = Ok([owner |-> owner, bytes |-> buf])
    /\ want' = read_metadata_section_name(target)
    /\ inspected' = Append(inspected, si)
    /\ pc' = "returned"
    /\ UNCHANGED <<call, target, filename, file, si, owner, advances>>

\* The name decodes and differs from the search name.
search_meta_section_no_match ==
    /\ pc = "scan_inspect"
    /\ LET name == from_utf8(file.items[si].name)
       IN  /\ name.ok
           /\ ~name_matches(target, name)
    /\ want' = read_metadata_section_name(target)
    /\ inspected' = Append(inspected, si)
    /\ pc' = "scan_advance"
    /\ UNCHANGED <<call, target, filename, file, si, owner, alive, handles,
                   result, advances>>

\* Faulty variant: the loop forgets to move the iterator.
search_meta_section_advance_stuck ==
    /\ pc = "scan_advance"
    /\ pc' = "scan_at_end"
    /\ UNCHANGED <<call, target, filename, file, si, owner, alive, handles,
                   result, want, inspected, advances>>

\* LLVMMoveToNextSection(si.llsi)
search_meta_section_advance ==
    /\ pc = "scan_advance"
    /\ si' = si + 1
    /\ advances' = advances + 1
    /\ pc' = "scan_at_end"
    /\ UNCHANGED <<call, target, filename, file, owner, alive, handles, result,
                   want, inspected>>

(***************************************************************************)
(* The caller.                                                             *)
(***************************************************************************)
\* A caller asks which section name a producer writes for target t.
call_metadata_section_name(t) ==
    /\ pc = "idle"
    /\ call' = "metadata_section_name"
    /\ target' = t
    /\ result' = Name(metadata_section_name(t))
    /\ pc' = "returned"
    /\ UNCHANGED <<filename, file, si, owner, alive, handles, want, inspected,
                   advances>>

\* The caller takes the returned value; a returned handle stays with it.
Return ==
    /\ pc = "returned"
    /\ pc' = "idle"
    /\ call' = "none"
    /\ target' = NoTarget
    /\ filename' = ""
    /\ file' = NoFile
    /\ si' = 0
    /\ owner' = 0
    /\ result' = NoResult
    /\ want' = ""
    /\ inspected' = <<>>
    /\ advances' = 0
    /\ UNCHANGED <<alive, handles>>

\* The caller drops a handle: the reference goes, then the owner it holds.
DropHandle(h) ==
    /\ pc = "idle"
    /\ h \in handles
    /\ handles' = handles \ {h}
    /\ alive' = [alive EXCEPT ![h.owner] = FALSE]
    /\ UNCHANGED <<pc, call, target, filename, file, si, owner, result, want,
                   inspected, advances>>

GetRlib == \E t \in Targets, f \in Paths, fl \in RlibFiles : get_rlib_metadata_open(t, f, fl)
GetDylib == \E t \in Targets, f \in Paths, fl \in DylibFiles : get_dylib_metadata_read(t, f, fl)
WriterName == \E t \in Targets : call_metadata_section_name(t)
Drop == \E h \in handles : DropHandle(h)

ScanStep ==
    \/ search_meta_section_at_end
    \/ search_meta_section_panic
    \/ search_meta_section_found
    \/ search_meta_section_no_match
    \/ search_meta_section_advance

RlibStep ==
    \/ get_rlib_metadata_skip
    \/ get_rlib_metadata_found
    \/ get_rlib_metadata_not_found

Next ==
    \/ GetRlib
    \/ RlibStep
    \/ GetDylib
    \/ get_dylib_metadata_object
    \/ ScanStep
    \/ WriterName
    \/ Return
    \/ Drop

Spec == Init /\ [][Next]_vars

\* The lookup in flight is not suspended: its next step is always taken.
FairSpec == Spec /\ WF_vars(RlibStep \/ get_dylib_metadata_object \/ ScanStep)

(***************************************************************************)
(* Vocabulary of the properties.                                           *)
(***************************************************************************)
Rlib == call = "get_rlib_metadata"
Dylib == call = "get_dylib_metadata"
ScanPcs == {"scan_at_end", "scan_inspect", "scan_advance"}
InFlightPcs == ScanPcs \cup {"rlib_next", "dylib_object"}
Items == file.items
N == Len(file.items)

\* the smallest element of a non-empty set of numbers
Least(S) == CHOOSE i \in S : \A j \in S : i <= j

\* positions of the parsed members named "rust.metadata.bin"
MetaIdx == { i \in 1..N : Items[i].ok /\ Items[i].name.some
                          /\ Items[i].name.v = "rust.metadata.bin" }
\* positions of the sections whose name bytes spell ".rustc"
RustcIdx == { i \in 1..N : Items[i].name = <<46, 114, 117, 115, 116, 99>> }
\* positions of the sections whose name bytes are not UTF-8
BadIdx == { i \in 1..N : ~Utf8Valid(Items[i].name) }

\* C1: an opened archive with a parsed member named "rust.metadata.bin"
\* yields Ok with the data of the first such member, whatever precedes it
\* and whatever the target.
C1_RlibFirstMember ==
    (Rlib /\ pc = "returned" /\ file.status = "ok" /\ MetaIdx # {}) =>
        /\ result.tag = "ok"
        /\ result.handle.bytes = Items[Least(MetaIdx)].data
        /\ result.handle \in handles

C1_Witness ==
    /\ Rlib /\ pc = "returned" /\ file.status = "ok"
    /\ N = 2 /\ MetaIdx = {2}
    /\ Items[1].ok /\ ~Items[1].name.some
    /\ target.options.is_like_osx
    /\ result.tag = "ok" /\ result.handle.bytes = <<170, 187>>

\* C2: an object file with decodable section names and a section named
\* ".rustc" yields Ok with the contents of the first such section, for
\* every target.
C2_DylibFirstSection ==
    (Dylib /\ file.status = "ok" /\ BadIdx = {} /\ RustcIdx # {}) =>
        /\ pc # "panicked"
        /\ pc = "returned" =>
            /\ result.tag = "ok"
            /\ result.handle.bytes = Items[Least(RustcIdx)].contents
            /\ result.handle \in handles

C2_Witness ==
    /\ Dylib /\ pc = "returned" /\ file.status = "ok"
    /\ BadIdx = {} /\ RustcIdx = {1, 2}
    /\ Items[1].contents # Items[2].contents
    /\ target.options.is_like_osx
    /\ result.tag = "ok" /\ result.handle.bytes = Items[1].contents

\* the container was parsed and the member / section was not found
NotFoundCase ==
    /\ pc = "returned" /\ result.tag = "err" /\ file.status = "ok"
    /\ Rlib \/ Dylib

\* C3 as stated: a not-found message contains the path and the name that
\* was searched for.
C3_NotFoundNamesWhatWasSearched ==
    NotFoundCase =>
        /\ Contains(result.msg, filename)
        /\ Rlib => Contains(result.msg, "rust.metadata.bin")
        /\ Dylib => Contains(result.msg, ".rustc")

\* C3 amended: a not-found message is fixed text around the path; the name
\* searched for is not put into it.
C3_NotFoundMessage ==
    NotFoundCase =>
        /\ Contains(result.msg, filename)
        /\ Rlib => result.msg = "failed to read rlib metadata: '" \o filename \o "'"
        /\ Dylib => result.msg = "metadata not found: '" \o filename \o "'"

C3_Witness ==
    /\ NotFoundCase /\ Dylib /\ N = 2
    /\ result.msg = "metadata not found: '/usr/lib/libbar.so'"

\* the file was not read or not parsed as the container
OpenFailureCase ==
    /\ pc = "returned" /\ result.tag = "err" /\ file.status # "ok"
    /\ Rlib \/ Dylib

\* C4 as stated: an open-failure message contains the path and the cause
\* the reader reports.
C4_OpenFailureNamesCause ==
    OpenFailureCase =>
        /\ Contains(result.msg, filename)
        /\ Contains(result.msg, file.cause)

\* C4 amended: the archive open failure carries path and cause; the two
\* dylib failures are fixed text around the path, without the cause.
C4_OpenFailureMessage ==
    OpenFailureCase =>
        /\ Contains(result.msg, filename)
        /\ Rlib => /\ Contains(result.msg, file.cause)
                   /\ result.msg = "failed to read rlib metadata in '" \o filename
                                   \o "': " \o file.cause
        /\ (Dylib /\ file.status = "unreadable") =>
               result.msg = "error reading library: '" \o filename \o "'"
        /\ (Dylib /\ file.status = "malformed") =>
               result.msg = "provided path not an object file: '" \o filename \o "'"

C4_Witness ==
    /\ OpenFailureCase /\ Rlib /\ file.status = "malformed"
    /\ result.msg = "failed to read rlib metadata in 'libfoo.rlib': Invalid file format"

ReadErrorMsg == "error reading library: '" \o filename \o "'"
NotObjectMsg == "provided path not an object file: '" \o filename \o "'"
SectionNotFoundMsg == "metadata not found: '" \o filename \o "'"

\* C5: of the three failures of get_dylib_metadata, the read error is
\* returned iff the file is unreadable, the not-an-object-file error iff it
\* is read but does not parse, and not-found only after both steps
\* succeeded and the scan went through every section; a file failing the
\* first or second step never gets scanned.
C5_DylibFailuresOrdered ==
    Dylib =>
        /\ file.status # "ok" =>
               /\ pc \notin ScanPcs /\ pc # "panicked"
               /\ inspected = <<>> /\ owner = 0
        /\ file.status = "unreadable" => pc = "returned"
        /\ pc = "returned" =>
               /\ file.status = "unreadable" <=> result = Err(ReadErrorMsg)
               /\ file.status = "malformed" <=> result = Err(NotObjectMsg)
               /\ result = Err(SectionNotFoundMsg) =>
                      /\ file.status = "ok"
                      /\ inspected = [i \in 1..N |-> i]
               /\ result.tag = "err" =>
                      result.msg \in {ReadErrorMsg, NotObjectMsg, SectionNotFoundMsg}
        /\ Cardinality({ReadErrorMsg, NotObjectMsg, SectionNotFoundMsg}) = 3

C5_Witness ==
    /\ Dylib /\ pc = "returned" /\ file.status = "malformed"
    /\ result = Err(NotObjectMsg) /\ inspected = <<>>

\* the members that parsed, in archive order
Parsed == SelectSeq(Items, LAMBDA s : s.ok)
ParsedMetaIdx == { i \in 1..Len(Parsed) : Parsed[i].name = Some("rust.metadata.bin") }

\* C6: the outcome of get_rlib_metadata is the outcome for the archive
\* without its unparseable members: the first matching member of those
\* that parse, else the not-found failure; an unparseable member is no
\* error of its own.
C6_CorruptMembersSkipped ==
    (Rlib /\ pc = "returned" /\ file.status = "ok") =>
        IF ParsedMetaIdx = {}
        THEN result = Err("failed to read rlib metadata: '" \o filename \o "'")
        ELSE /\ result.tag = "ok"
             /\ result.handle.bytes = Parsed[Least(ParsedMetaIdx)].data

C6_Witness ==
    /\ Rlib /\ pc = "returned" /\ file.status = "ok"
    /\ N = 2 /\ ~Items[1].ok /\ MetaIdx = {2}
    /\ result.tag = "ok" /\ result.handle.bytes = Items[2].data
    /\ inspected = <<1, 2>>

\* C7: metadata_section_name returns "__DATA,.rustc" iff the target is
\* like OSX and ".rustc" otherwise; the scan compares against ".rustc" for
\* every target; the two names agree exactly for the targets not like OSX;
\* asking for the name opens, releases and returns no resource.
C7_NameInv ==
    /\ (pc = "returned" /\ call = "metadata_section_name") =>
           /\ result.tag = "name"
           /\ result.msg = "__DATA,.rustc" <=> target.options.is_like_osx
           /\ result.msg = ".rustc" <=> ~target.options.is_like_osx
    /\ (Dylib /\ want # "") => want = ".rustc"
    /\ \A t \in Targets :
           (metadata_section_name(t) = read_metadata_section_name(t))
               <=> ~t.options.is_like_osx

C7_SectionNames ==
    /\ []C7_NameInv
    /\ [][call' = "metadata_section_name" => UNCHANGED <<alive, handles>>]_vars

C7_Witness ==
    /\ pc = "returned" /\ call = "metadata_section_name"
    /\ target.options.is_like_osx /\ result.msg = "__DATA,.rustc"

\* what holds of resources and handles in every state
C8_LifetimeInv ==
    \* no handle outlives its backing resource
    /\ \A h \in handles : h.owner \in 1..MaxLive /\ alive[h.owner]
    \* a resource backs at most one handle
    /\ \A h1, h2 \in handles : h1.owner = h2.owner => h1 = h2
    \* an open resource belongs to a handle or to the lookup in flight
    /\ \A r \in 1..MaxLive :
           alive[r] => \/ \E h \in handles : h.owner = r
                       \/ r = owner /\ pc \in InFlightPcs
    \* a returned handle exists; a failed or panicked lookup leaves neither
    \* a handle nor an open resource
    /\ result.tag = "ok" => result.handle \in handles /\ result.handle.owner = owner
    /\ (result.tag \in {"err", "panic"} /\ owner # 0) =>
           /\ ~alive[owner]
           /\ \A h \in handles : h.owner # owner

\* what holds of every step
C8_LifetimeStep ==
    \* a handle that stays keeps its owner and its bytes
    /\ \A h \in handles : \A g \in handles' : g.owner = h.owner => g = h
    \* a handle appears only as the Ok result of the step that ends a lookup
    /\ \A g \in handles' \ handles :
           /\ handles' = handles \cup {g}
           /\ pc \in InFlightPcs /\ pc' = "returned"
           /\ result' = Ok(g) /\ g.owner = owner
    \* a step that ends a lookup in failure adds no handle
    /\ (pc \in InFlightPcs /\ result'.tag \in {"err", "panic"}) => handles' = handles
    \* a resource is released only with its handle, or by the failed lookup
    \* that opened it
    /\ \A r \in 1..MaxLive :
           (alive[r] /\ ~alive'[r]) =>
               \/ \E h \in handles : h.owner = r /\ h \notin handles'
               \/ r = owner /\ result'.tag \in {"err", "panic"}

\* C8: over all lookups and drops, a backing resource is not released while
\* a handle derived from it exists; a handle is created by one successful
\* lookup and never changed; a failed projection produces no handle and
\* releases the resource opened for the lookup.
C8_HandleLifetime == []C8_LifetimeInv /\ [][C8_LifetimeStep]_vars

C8_Witness ==
    /\ pc = "returned" /\ result.tag = "err" /\ file.status = "ok"
    /\ owner = 2 /\ ~alive[2]
    /\ \E h \in handles : h.owner = 1 /\ alive[1]

\* C9: an undecodable section name reached before any ".rustc" section
\* ends the scan in a panic: nothing is returned, no handle is made and no
\* later section is inspected; one that lies after the first ".rustc"
\* section changes nothing.
C9_UndecodableNameIsFatal ==
    (Dylib /\ file.status = "ok" /\ BadIdx # {}) =>
        LET bad == Least(BadIdx)
        IN  IF RustcIdx # {} /\ Least(RustcIdx) < bad
            THEN /\ pc # "panicked"
                 /\ pc = "returned" =>
                        /\ result.tag = "ok"
                        /\ result.handle.bytes = Items[Least(RustcIdx)].contents
                 /\ \A k \in 1..Len(inspected) : inspected[k] < bad
            ELSE /\ pc # "returned"
                 /\ result.tag \in {"none", "panic"}
                 /\ \A h \in handles : h.owner # owner
                 /\ \A k \in 1..Len(inspected) : inspected[k] <= bad
                 /\ pc = "panicked" <=> (inspected # <<>> /\ inspected[Len(inspected)] = bad)
                 /\ pc = "panicked" => result = Panic /\ ~alive[owner]

C9_Witness ==
    /\ Dylib /\ pc = "panicked" /\ result = Panic
    /\ N = 2 /\ BadIdx = {1} /\ RustcIdx = {2}
    /\ inspected = <<1>>

\* the scan of an object file whose section names all decode
DecodableScan == Dylib /\ file.status = "ok" /\ BadIdx = {}

C10_ScanInv ==
    DecodableScan =>
        /\ pc \in ScanPcs \cup {"dylib_object", "returned"}
        /\ pc # "dylib_object" =>
               \* the cursor starts at the first section and moves forward only
               /\ si \in 1..(N + 1)
               /\ advances = si - 1
               /\ advances <= N
               \* the sections inspected are 1, 2, ... in order, each once
               /\ inspected = [i \in 1..Len(inspected) |-> i]
               /\ Len(inspected) = IF pc \in {"scan_at_end", "scan_inspect"}
                                   THEN si - 1 ELSE IF pc = "scan_advance" THEN si
                                   ELSE IF result.tag = "ok" THEN si ELSE N
               \* nothing is inspected past the end
               /\ pc = "scan_inspect" => si <= N
               /\ pc = "returned" =>
                      /\ result.tag \in {"ok", "err"}
                      \* Found: at the first match, nothing after it inspected
                      /\ result.tag = "ok" =>
                             /\ RustcIdx # {} /\ si = Least(RustcIdx)
                             /\ result.handle.bytes = Items[si].contents
                      \* NotFound: after every section was inspected
                      /\ result.tag = "err" =>
                             /\ RustcIdx = {} /\ si = N + 1
                             /\ result.msg = SectionNotFoundMsg
                      /\ N = 0 => result.tag = "err" /\ inspected = <<>>

C10_ScanStep ==
    (DecodableScan /\ pc \in ScanPcs) =>
        \* forward only, one section at a time, no restart
        /\ si' \in {si, si + 1}
        /\ si' = si + 1 <=> (pc = "scan_advance" /\ pc' = "scan_at_end")
        \* the at-end check precedes every inspection
        /\ pc' = "scan_inspect" => pc = "scan_at_end"
        /\ inspected' # inspected => pc = "scan_inspect"
        \* the scan is left only by returning
        /\ pc' \in ScanPcs \cup {"returned"}

\* C10: the section scan over n sections with decodable names starts at the
\* first section, checks for the end before every inspection, only ever
\* advances by one, ends in Found or NotFound after at most n advances,
\* stops at the first match, and always terminates.
C10_ForwardScanTerminates ==
    /\ []C10_ScanInv
    /\ [][C10_ScanStep]_vars
    /\ (DecodableScan /\ pc \in ScanPcs) ~> (pc = "returned")

C10_Witness ==
    /\ DecodableScan /\ pc = "returned"
    /\ N = 2 /\ RustcIdx = {2}
    /\ result.tag = "ok" /\ advances = 1 /\ inspected = <<1, 2>>

====
